---- MODULE Spec2Model ----
(***************************************************************************)
(* Model of accountant.database.db.CSVDataBase: a CSV-backed record store  *)
(* of Entry rows with write / read_all / get_by / update / delete.         *)
(*                                                                         *)
(* A file is a sequence of lines; a line is a mapping field name -> text.  *)
(* An Entry is a mapping field name -> typed value.  Text and typed values *)
(* are kept apart so that serialise/parse is a real conversion.            *)
(***************************************************************************)
EXTENDS Integers, Sequences, FiniteSets, TLC

\* ---------------------------------------------------------------- bounds
MaxRows == 3      \* most data rows the backing file may hold
MaxBatch == 2     \* longest batch handed to one write call

\* ---------------------------------------------------------------- schema
\* Entry.model_fields.keys(), in declaration order
field_names == <<"id", "date_time", "name", "amount", "reason", "tag", "flow_type">>

FieldSet == {field_names[i] : i \in 1..Len(field_names)}

\* FlowType literals
FlowType == {"credit", "debit", "savings"}

\* ---------------------------------------------------------------- values
\* Typed (in-memory) Python values.  v is always a string so that values of
\* different types stay comparable.
None == [t |-> "none", v |-> ""]
Str(s) == [t |-> "str", v |-> s]
Dec(s) == [t |-> "dec", v |-> s]
Dt(s) == [t |-> "dt", v |-> s]
Enum(s) == [t |-> "enum", v |-> s]
Invalid(s) == [t |-> "invalid", v |-> s]

\* Texts that Decimal(...) accepts (pairwise different numbers).
DecimalTexts == {"1", "123123123"}

\* Texts that parse as a datetime, with str(datetime) of the parsed value:
\* the "T" form is what Entry's default factory produces, the blank form is
\* what the csv writer produces from a datetime object.
DateTimeText(s) ==
    CASE s = "2024-01-01T00:00:00" -> "2024-01-01 00:00:00"
      [] s = "2024-01-01 00:00:00" -> "2024-01-01 00:00:00"
      [] OTHER -> ""

\* Python's == on two values: a StrEnum member is a str and compares equal
\* to the plain string with the same text; everything else compares by type
\* and value.
PyEq(a, b) ==
    IF a.t \in {"str", "enum"} /\ b.t \in {"str", "enum"}
    THEN a.v = b.v
    ELSE a = b

\* The csv writer's stringification of one cell: None becomes the empty
\* string, anything else str(value).
ToText(x) ==
    CASE x.t = "none" -> ""
      [] x.t = "invalid" -> ""
      [] OTHER -> x.v

\* pydantic validation of one text cell against the declared field type.
ParseField(f, s) ==
    CASE f \in {"id", "tag", "name", "reason"} -> Str(s)
      [] f = "amount" -> IF s \in DecimalTexts THEN Dec(s) ELSE Invalid(s)
      [] f = "date_time" ->
            IF DateTimeText(s) # "" THEN Dt(DateTimeText(s)) ELSE Invalid(s)
      [] f = "flow_type" -> IF s \in FlowType THEN Enum(s) ELSE Invalid(s)
      [] OTHER -> Invalid(s)

\* Entry(**row): the parsed entry (cells that fail validation are Invalid)
EntryOf(row) == [f \in FieldSet |-> ParseField(f, row[f])]

\* Entry(**row) raises ValidationError unless every cell validates
Parses(row) == \A f \in FieldSet : ParseField(f, row[f]).t # "invalid"

\* entry.model_dump() handed to DictWriter.writerow: one text row
RowOf(entry) == [f \in FieldSet |-> ToText(entry[f])]

\* DictWriter.writeheader(): the line of field names
HeaderLine == [f \in FieldSet |-> f]

\* hasattr(entry, name) for the names the callers use
HasAttr(name) == name \in FieldSet

\* ---------------------------------------------------------------- inputs
MkEntry(id, dt, name, flow) ==
    [id |-> id, date_time |-> dt, name |-> Str(name), amount |-> Dec("1"),
     reason |-> Str("JFF"), tag |-> None, flow_type |-> Enum(flow)]

DefaultDt == Str("2024-01-01T00:00:00")

E1 == MkEntry(Str("i1"), DefaultDt, "Usr", "credit")
E2 == MkEntry(Str("i2"), DefaultDt, "Usr", "credit")     \* E1 but for the id
E3 == MkEntry(Str("i1"), DefaultDt, "Spcl", "savings")   \* E1's id, other fields
E4 == MkEntry(None, None, "Spcl", "debit")               \* id, date_time absent

Entries == {E1, E2, E3, E4}

NoEntry == MkEntry(None, None, "", "credit")

\* Conditions share one shape: kind is "query", "update" or "entry".
Query(where, value) ==
    [kind |-> "query", where |-> where, value |-> value,
     with_new_value |-> None, entry |-> NoEntry]
UpdateCondition(where, value, new) ==
    [kind |-> "update", where |-> where, value |-> value,
     with_new_value |-> new, entry |-> NoEntry]
EntryCond(e) ==
    [kind |-> "entry", where |-> "", value |-> None,
     with_new_value |-> None, entry |-> e]
NoCond ==
    [kind |-> "none", where |-> "", value |-> None,
     with_new_value |-> None, entry |-> NoEntry]

Queries ==
    { Query("name", Str("Usr")),
      Query("flow_type", Enum("savings")),
      Query("nosuch", Str("x")) }

UpdateConditions ==
    { UpdateCondition("name", Str("Spcl"), Str("Not SO Spcl")),
      UpdateCondition("nosuch", Str("x"), Str("y")) }

DeleteConditions == Queries \cup {EntryCond(e) : e \in {E1, E4}}

\* The batches handed to write: the runs of at most MaxBatch consecutive
\* entries of Roster (the empty batch included).
Roster == <<E1, E2, E3, E4>>

Batches ==
    {SubSeq(Roster, i, j) : i \in 1..Len(Roster),
                            j \in 0..Len(Roster)} \cap
    UNION {[1..n -> Entries] : n \in 0..MaxBatch}


\* ---------------------------------------------------------------- state
VARIABLES
    file,        \* backing file: [exists, lines]
    temp,        \* <stem>.temp-to-re-write.csv: [exists, lines]
    op,          \* name of the last call ("init" before any call)
    batch,       \* argument of the last write call
    cond,        \* argument of the last get_by / update / delete call
    pre,         \* backing file as it was when the last call started
    preTemp,     \* temporary file as it was when the last call started
    ret,         \* outcome of the last call
    onlyWrites,  \* every call so far was a write that returned True
    nWritten,    \* entries handed to write so far (while onlyWrites)
    pc,          \* position inside a delete call taken step by step ("idle" outside)
    idx,         \* index of the next data row the delete loop reads
    readOpen,    \* delete's read handle on the backing file is open
    writeOpen    \* delete's write handle on the temporary file is open

vars == <<file, temp, op, batch, cond, pre, preTemp, ret, onlyWrites, nWritten,
          pc, idx, readOpen, writeOpen>>

Absent == [exists |-> FALSE, lines |-> <<>>]
Empty == [exists |-> TRUE, lines |-> <<>>]

\* Outcomes of a call: a boolean, a list of entries, None, or an exception.
RetBool(b) == [kind |-> "bool", b |-> b, list |-> <<>>, exc |-> ""]
RetList(l) == [kind |-> "list", b |-> FALSE, list |-> l, exc |-> ""]
RetNone == [kind |-> "none", b |-> FALSE, list |-> <<>>, exc |-> ""]
Raise(e) == [kind |-> "raise", b |-> FALSE, list |-> <<>>, exc |-> e]

\* ---------------------------------------------------------------- helpers
\* faulty variant: a zero-size file is taken for a missing one
DoesCsvFileExistNonEmpty(f) == f.exists /\ f.lines # <<>>

\* faulty variant: the existence guard always passes
DoesCsvFileExistAlways(f) == TRUE

\* self.path.is_file() and self.path.exists()
DoesCsvFileExist(f) == f.exists

\* list(DictReader(file)): the first line names the columns, the others are
\* the rows (every file this program writes starts with HeaderLine).
DictReader(lines) == IF lines = <<>> THEN <<>> ELSE Tail(lines)

\* the data rows of a file
DataRows(f) == DictReader(f.lines)

RECURSIVE MapSeq(_, _)
\* [Op(x) for x in s]
MapSeq(Op(_), s) ==
    IF s = <<>> THEN <<>> ELSE <<Op(Head(s))>> \o MapSeq(Op, Tail(s))

\* read_all: raises FileNotFoundError when the file is missing, raises
\* ValidationError when a row does not parse, else returns the entries.
ReadAllResult(f) ==
    IF ~DoesCsvFileExist(f) THEN Raise("FileNotFoundError")
    ELSE IF \E i \in 1..Len(DataRows(f)) : ~Parses(DataRows(f)[i])
         THEN Raise("ValidationError")
         ELSE RetList(MapSeq(EntryOf, DataRows(f)))

\* Places where a write call can hit an I/O error.
WriteFailures == {"none", "open", "created", "partial"}

\* faulty variant: write adds the header on every call
NeedsHeaderAlways(lines) == TRUE

\* The st_size == 0 test of write
NeedsHeader(lines) == Len(lines) = 0

\* faulty variant: write opens the file in "w" mode and drops what it held
AppendedTruncates(f, entries, k) ==
    [exists |-> TRUE,
     lines |-> <<HeaderLine>> \o MapSeq(RowOf, SubSeq(entries, 1, k))]

\* Contents of the file after write opened it in "a+" mode and wrote the
\* first k of the entries (k = Len(entries) when nothing fails).
Appended(f, entries, k) ==
    LET old == IF f.exists THEN f.lines ELSE <<>>
        hdr == IF NeedsHeader(old) THEN <<HeaderLine>> ELSE <<>>
    IN [exists |-> TRUE,
        lines |-> old \o hdr \o MapSeq(RowOf, SubSeq(entries, 1, k))]

\* File left behind by write(entries) failing at `fail` after k rows.
WriteEffect(f, entries, fail, k) ==
    CASE fail = "open" -> f
      [] fail = "created" -> [exists |-> TRUE, lines |-> f.lines]
      [] fail = "partial" -> Appended(f, entries, k)
      [] OTHER -> Appended(f, entries, Len(entries))

\* the number of rows a write failing at `fail` may have written
WrittenBefore(entries, fail) ==
    IF fail = "partial" THEN {k \in 0..Len(entries) : k < Len(entries)}
    ELSE {Len(entries)}

\* the condition test of get_by and update on one entry
Matches(entry, c) ==
    HasAttr(c.where) /\ PyEq(entry[c.where], c.value)

RECURSIVE FilterPrepends(_, _, _)
\* faulty variant: matches are inserted at the front of filtered_data
FilterPrepends(data, c, acc) ==
    IF data = <<>> THEN acc
    ELSE FilterPrepends(Tail(data), c,
                        IF Matches(Head(data), c) THEN <<Head(data)>> \o acc ELSE acc)

RECURSIVE Filter(_, _, _)
\* the loop of get_by: filtered_data
Filter(data, c, acc) ==
    IF data = <<>> THEN acc
    ELSE Filter(Tail(data), c,
                IF Matches(Head(data), c) THEN Append(acc, Head(data)) ELSE acc)

\* setattr(each, condition.where, condition.with_new_value) when it matches
Mutate(entry, c) ==
    IF Matches(entry, c)
    THEN [entry EXCEPT ![c.where] = c.with_new_value]
    ELSE entry

RECURSIVE Mutated(_, _)
\* the loop of update over data
Mutated(data, c) ==
    IF data = <<>> THEN <<>>
    ELSE <<Mutate(Head(data), c)>> \o Mutated(Tail(data), c)

\* faulty variant: delete by instance compares the whole entry, not the id alone
DeleteTestWholeEntry(entry, c) ==
    CASE c.kind = "query" ->
            IF ~HasAttr(c.where) THEN "AttributeError"
            ELSE IF PyEq(entry[c.where], c.value) THEN "match" ELSE ""
      [] c.kind = "entry" ->
            IF \A f \in FieldSet : PyEq(entry[f], c.entry[f]) THEN "match" ELSE ""
      [] OTHER -> ""

\* the delete test on one parsed row: "" = no match, or the exception
DeleteTest(entry, c) ==
    CASE c.kind = "query" ->
            IF ~HasAttr(c.where) THEN "AttributeError"
            ELSE IF PyEq(entry[c.where], c.value) THEN "match" ELSE ""
      [] c.kind = "entry" ->
            IF PyEq(entry.id, c.entry.id) THEN "match" ELSE ""
      [] OTHER -> ""

\* faulty variant: the loop stops filtering at the first match (break for continue)
\* and copies the remaining rows
DeleteLoopStopsAtMatch(rows, c, out) ==
    LET hits == {i \in 1..Len(rows) :
                    /\ Parses(rows[i])
                    /\ c.kind = "query" /\ HasAttr(c.where)
                    /\ PyEq(EntryOf(rows[i])[c.where], c.value)}
        first == IF hits = {} THEN 0 ELSE CHOOSE i \in hits : \A j \in hits : i <= j
    IN [lines |-> out \o [i \in 1..(Len(rows) - (IF first = 0 THEN 0 ELSE 1)) |->
                              IF first # 0 /\ i >= first THEN rows[i + 1] ELSE rows[i]],
        exc |-> ""]

RECURSIVE DeleteLoop(_, _, _)
\* the streaming loop of delete: lines written to the temporary file and the
\* exception that ended the loop ("" when it ran to the end)
DeleteLoop(rows, c, out) ==
    IF rows = <<>> THEN [lines |-> out, exc |-> ""]
    ELSE IF ~Parses(Head(rows)) THEN [lines |-> out, exc |-> "ValidationError"]
    ELSE LET test == DeleteTest(EntryOf(Head(rows)), c)
         IN CASE test = "match" -> DeleteLoop(Tail(rows), c, out)
              [] test = "" -> DeleteLoop(Tail(rows), c, Append(out, Head(rows)))
              [] OTHER -> [lines |-> out, exc |-> test]

\* Places where a delete call can hit an I/O error.
DeleteFailures == {"none", "open", "replace"}

\* ---------------------------------------------------------------- actions
Init ==
    /\ file \in {Absent, Empty}
    /\ temp = Absent
    /\ op = "init"
    /\ batch = <<>>
    /\ cond = NoCond
    /\ pre = file
    /\ preTemp = Absent
    /\ ret = RetNone
    /\ onlyWrites = TRUE
    /\ nWritten = 0
    /\ pc = "idle"
    /\ idx = 0
    /\ readOpen = FALSE
    /\ writeOpen = FALSE

\* record the call that starts now
Started(name, b, c) ==
    /\ op' = name
    /\ batch' = b
    /\ cond' = c
    /\ pre' = file
    /\ preTemp' = temp

\* a call taken in one step: it starts and ends outside any delete in progress
Called(name, b, c) ==
    /\ Started(name, b, c)
    /\ UNCHANGED <<pc, idx, readOpen, writeOpen>>

\* CSVDataBase.write(entries)
Write(entries, fail) ==
    /\ Len(DataRows(file)) + Len(entries) <= MaxRows
    /\ \E k \in WrittenBefore(entries, fail) :
          file' = WriteEffect(file, entries, fail, k)
    /\ ret' = RetBool(fail = "none")
    /\ Called("write", entries, NoCond)
    /\ onlyWrites' = (onlyWrites /\ fail = "none")
    /\ nWritten' = IF onlyWrites' THEN nWritten + Len(entries) ELSE 0
    /\ UNCHANGED temp

\* CSVDataBase.__does_csv_file_exist(), the store's exists operation
Exists ==
    /\ ret' = RetBool(DoesCsvFileExist(file))
    /\ Called("exists", <<>>, NoCond)
    /\ UNCHANGED <<file, temp, onlyWrites, nWritten>>

\* faulty variant: read_all opens the file in "a+" mode and so creates it
ReadAllCreates ==
    /\ ret' = ReadAllResult(file)
    /\ file' = [exists |-> TRUE, lines |-> file.lines]
    /\ Called("read_all", <<>>, NoCond)
    /\ UNCHANGED <<temp, onlyWrites, nWritten>>

\* CSVDataBase.read_all()
ReadAll ==
    /\ ret' = ReadAllResult(file)
    /\ Called("read_all", <<>>, NoCond)
    /\ UNCHANGED <<file, temp, onlyWrites, nWritten>>

\* CSVDataBase.get_by(query)
GetBy(query) ==
    /\ LET data == ReadAllResult(file)
       IN ret' = IF data.kind = "raise" THEN RetNone
                 ELSE IF data.list # <<>>
                      THEN RetList(Filter(data.list, query, <<>>))
                      ELSE RetNone
    /\ Called("get_by", <<>>, query)
    /\ UNCHANGED <<file, temp, onlyWrites, nWritten>>

\* CSVDataBase.update(condition)
Update(condition, fail) ==
    /\ LET data == ReadAllResult(file)
       IN IF data.kind = "raise"
          THEN /\ fail = "none"
               /\ ret' = data
               /\ file' = file
          ELSE IF data.list # <<>>
          THEN /\ 2 * Len(data.list) <= MaxRows
               /\ \E k \in WrittenBefore(data.list, fail) :
                     file' = WriteEffect(file, Mutated(data.list, condition), fail, k)
               /\ ret' = RetBool(TRUE)
          ELSE /\ fail = "none"
               /\ ret' = RetBool(FALSE)
               /\ file' = file
    /\ Called("update", <<>>, condition)
    /\ onlyWrites' = FALSE
    /\ nWritten' = 0
    /\ UNCHANGED temp

\* faulty variant: the rename sits in a finally clause and is also reached
\* when the loop was left by an exception
DeleteReplacesOnAbort(condition, fail) ==
    /\ IF ~DoesCsvFileExist(file)
       THEN /\ fail = "none"
            /\ ret' = RetBool(FALSE)
            /\ UNCHANGED <<file, temp>>
       ELSE IF fail = "open"
       THEN /\ ret' = Raise("OSError")
            /\ UNCHANGED <<file, temp>>
       ELSE LET loop == DeleteLoop(DictReader(file.lines), condition, <<HeaderLine>>)
                written == [exists |-> TRUE, lines |-> loop.lines]
            IN IF fail = "replace"
               THEN /\ ret' = Raise("OSError")
                    /\ temp' = written
                    /\ file' = file
               ELSE /\ ret' = IF loop.exc # "" THEN Raise(loop.exc) ELSE RetBool(TRUE)
                    /\ temp' = Absent
                    /\ file' = written
    /\ Called("delete", <<>>, condition)
    /\ onlyWrites' = FALSE
    /\ nWritten' = 0

\* CSVDataBase.delete(condition)
Delete(condition, fail) ==
    /\ IF ~DoesCsvFileExist(file)
       THEN /\ fail = "none"
            /\ ret' = RetBool(FALSE)
            /\ UNCHANGED <<file, temp>>
       ELSE IF fail = "open"
       THEN /\ ret' = Raise("OSError")
            /\ UNCHANGED <<file, temp>>
       ELSE LET loop == DeleteLoop(DictReader(file.lines), condition, <<HeaderLine>>)
                written == [exists |-> TRUE, lines |-> loop.lines]
            IN IF loop.exc # ""
               THEN /\ fail = "none"
                    /\ ret' = Raise(loop.exc)
                    /\ temp' = written
                    /\ file' = file
               ELSE IF fail = "replace"
               THEN /\ ret' = Raise("OSError")
                    /\ temp' = written
                    /\ file' = file
               ELSE /\ ret' = RetBool(TRUE)
                    /\ temp' = Absent
                    /\ file' = written
    /\ Called("delete", <<>>, condition)
    /\ onlyWrites' = FALSE
    /\ nWritten' = 0

DoWrite == \E entries \in Batches, fail \in WriteFailures : Write(entries, fail)
DoGetBy == \E query \in Queries : GetBy(query)
DoUpdate == \E condition \in UpdateConditions, fail \in WriteFailures : Update(condition, fail)
DoDelete == \E condition \in DeleteConditions, fail \in DeleteFailures : Delete(condition, fail)

Next == DoWrite \/ Exists \/ ReadAll \/ DoGetBy \/ DoUpdate \/ DoDelete

Spec == Init /\ [][Next]_vars

\* ------------------------------------------------- delete, step by step
\* The same delete taken one statement at a time, so that the states in the
\* middle of a call (and a process crash in any of them) can be looked at.

\* faulty variant: leaving the with block keeps the handle open
WithExitLeaks(h) == h

\* a handle after the with block is left, normally or by an exception
WithExit(h) == FALSE

\* delete is entered: the existence guard, then open(self.path, "r")
DeleteStart(condition) ==
    /\ pc = "idle"
    /\ Started("delete", <<>>, condition)
    /\ IF ~DoesCsvFileExist(file)
       THEN /\ ret' = RetBool(FALSE)
            /\ UNCHANGED <<pc, readOpen>>
       ELSE /\ ret' = RetNone
            /\ pc' = "read_open"
            /\ readOpen' = TRUE
    /\ onlyWrites' = FALSE
    /\ nWritten' = 0
    /\ UNCHANGED <<file, temp, idx, writeOpen>>

\* open(temp_file, "w"): creates or truncates the temporary file
DeleteOpenTemp(fail) ==
    /\ pc = "read_open"
    /\ IF fail = "open"
       THEN /\ ret' = Raise("OSError")
            /\ readOpen' = WithExit(readOpen)
            /\ pc' = "idle"
            /\ UNCHANGED <<temp, writeOpen>>
       ELSE /\ fail = "none"
            /\ temp' = Empty
            /\ writeOpen' = TRUE
            /\ pc' = "header"
            /\ UNCHANGED <<ret, readOpen>>
    /\ UNCHANGED <<file, op, batch, cond, pre, preTemp, onlyWrites, nWritten, idx>>

\* writer.writeheader()
DeleteHeader ==
    /\ pc = "header"
    /\ temp' = [exists |-> TRUE, lines |-> <<HeaderLine>>]
    /\ idx' = 1
    /\ pc' = "loop"
    /\ UNCHANGED <<file, op, batch, cond, pre, preTemp, ret, onlyWrites, nWritten,
                   readOpen, writeOpen>>

\* an exception leaves the with block: both handles are closed, it propagates
DeleteAbort(exc) ==
    /\ ret' = Raise(exc)
    /\ readOpen' = WithExit(readOpen)
    /\ writeOpen' = WithExit(writeOpen)
    /\ pc' = "idle"
    /\ idx' = 0
    /\ UNCHANGED temp

\* one iteration of `for row in reader`
DeleteRow ==
    /\ pc = "loop"
    /\ idx <= Len(DataRows(file))
    /\ LET row == DataRows(file)[idx]
           test == DeleteTest(EntryOf(row), cond)
       IN IF ~Parses(row) THEN DeleteAbort("ValidationError")
          ELSE IF test \notin {"match", ""} THEN DeleteAbort(test)
          ELSE /\ temp' = IF test = "match" THEN temp
                          ELSE [temp EXCEPT !.lines = Append(@, row)]
               /\ idx' = idx + 1
               /\ UNCHANGED <<ret, pc, readOpen, writeOpen>>
    /\ UNCHANGED <<file, op, batch, cond, pre, preTemp, onlyWrites, nWritten>>

\* the reader is exhausted and the with block is left
DeleteClose ==
    /\ pc = "loop"
    /\ idx > Len(DataRows(file))
    /\ readOpen' = WithExit(readOpen)
    /\ writeOpen' = WithExit(writeOpen)
    /\ pc' = "closed"
    /\ idx' = 0
    /\ UNCHANGED <<file, temp, op, batch, cond, pre, preTemp, ret, onlyWrites, nWritten>>

\* faulty variant: the original is unlinked before the temporary file is moved
DeleteReplaceUnlinksFirst(fail) ==
    /\ pc = "closed"
    /\ fail = "none"
    /\ file' = Absent
    /\ pc' = "replaced"
    /\ UNCHANGED <<temp, op, batch, cond, pre, preTemp, ret, onlyWrites, nWritten,
                   idx, readOpen, writeOpen>>

\* temp_file.replace(self.path): one rename
DeleteReplace(fail) ==
    /\ pc = "closed"
    /\ IF fail = "replace"
       THEN /\ ret' = Raise("OSError")
            /\ pc' = "idle"
            /\ UNCHANGED <<file, temp>>
       ELSE /\ fail = "none"
            /\ file' = temp
            /\ temp' = Absent
            /\ pc' = "replaced"
            /\ UNCHANGED ret
    /\ UNCHANGED <<op, batch, cond, pre, preTemp, onlyWrites, nWritten,
                   idx, readOpen, writeOpen>>

\* return True
DeleteReturn ==
    /\ pc = "replaced"
    /\ ret' = RetBool(TRUE)
    /\ pc' = "idle"
    /\ UNCHANGED <<file, temp, op, batch, cond, pre, preTemp, onlyWrites, nWritten,
                   idx, readOpen, writeOpen>>

\* the process dies inside delete: the operating system closes its handles,
\* the files stay as they are
Crash ==
    /\ pc # "idle"
    /\ op' = "crash"
    /\ ret' = RetNone
    /\ pc' = "idle"
    /\ idx' = 0
    /\ readOpen' = FALSE
    /\ writeOpen' = FALSE
    /\ UNCHANGED <<file, temp, batch, cond, pre, preTemp, onlyWrites, nWritten>>

\* write between deletes, to fill the store
StepWrite == pc = "idle" /\ \E entries \in Batches : Write(entries, "none")

StepDeleteStart == \E condition \in DeleteConditions : DeleteStart(condition)
StepDeleteOpenTemp == \E fail \in {"none", "open"} : DeleteOpenTemp(fail)
StepDeleteReplace == \E fail \in {"none", "replace"} : DeleteReplace(fail)

NextSteps ==
    \/ StepWrite
    \/ StepDeleteStart
    \/ StepDeleteOpenTemp
    \/ DeleteHeader
    \/ DeleteRow
    \/ DeleteClose
    \/ StepDeleteReplace
    \/ DeleteReturn
    \/ Crash

SpecSteps == Init /\ [][NextSteps]_vars

\* ---------------------------------------------------------------- sanity
\* every existing non-empty file starts with the header line
HeaderFirst == file.lines # <<>> => file.lines[1] = HeaderLine

\* ---------------------------------------------------------------- claims
\* indices of the rows of rs whose parsed field `where` equals value
MatchingRows(rs, where, value) ==
    {i \in 1..Len(rs) : where \in FieldSet /\ PyEq(EntryOf(rs[i])[where], value)}

AllParse(rs) == \A i \in 1..Len(rs) : Parses(rs[i])

HeaderCount(lines) == Cardinality({i \in 1..Len(lines) : lines[i] = HeaderLine})

\* C1 (as claimed): after update(c) returns True the store holds as many rows
\* as before, in the same order; a row whose field c.where equalled c.value
\* has that field set to c.with_new_value and its other fields unchanged,
\* and every other row is unchanged.
C1_UpdateRewritesInPlace ==
    (op = "update" /\ ret = RetBool(TRUE)) =>
        /\ Len(DataRows(file)) = Len(DataRows(pre))
        /\ \A i \in 1..Len(DataRows(pre)) :
              LET old == EntryOf(DataRows(pre)[i])
                  new == EntryOf(DataRows(file)[i])
              IN IF i \in MatchingRows(DataRows(pre), cond.where, cond.value)
                 THEN /\ PyEq(new[cond.where], cond.with_new_value)
                      /\ \A f \in FieldSet \ {cond.where} : new[f] = old[f]
                 ELSE new = old

\* C2: after only successful write calls, starting from a missing or
\* zero-size file, the file is one header line followed by exactly as many
\* data rows as entries were written; and a successful write adds a header
\* exactly when it found the file empty.
C2_OneHeaderThenRows ==
    /\ (op = "write" /\ onlyWrites) =>
          /\ file.exists
          /\ Len(file.lines) = 1 + nWritten
          /\ file.lines[1] = HeaderLine
          /\ \A i \in 2..Len(file.lines) : file.lines[i] # HeaderLine
    /\ (op = "write" /\ ret = RetBool(TRUE)) =>
          HeaderCount(file.lines) - HeaderCount(pre.lines)
              = IF pre.lines = <<>> THEN 1 ELSE 0

\* C2 witness: three entries written by more than one successful call
C2_Witness ==
    /\ op = "write" /\ onlyWrites
    /\ nWritten = 3
    /\ Len(batch) = 1
    /\ Len(pre.lines) = 3

\* C3: after delete(q) with q on a declared field returns True, the store
\* holds exactly the rows that did not match, in their original order and
\* with their text unchanged; the row count dropped by the number of matches.
C3_DeleteQueryKeepsTheRest ==
    (op = "delete" /\ cond.kind = "query" /\ cond.where \in FieldSet
                   /\ ret = RetBool(TRUE)) =>
        LET before == DataRows(pre)
            hits == MatchingRows(before, cond.where, cond.value)
            Kept(r) == ~PyEq(EntryOf(r)[cond.where], cond.value)
        IN /\ DataRows(file) = SelectSeq(before, Kept)
           /\ Len(DataRows(file)) = Len(before) - Cardinality(hits)

\* C3 witness: a delete that removed a middle row and kept the rows around it
C3_Witness ==
    /\ op = "delete" /\ cond.kind = "query" /\ ret = RetBool(TRUE)
    /\ Len(DataRows(pre)) = 3
    /\ MatchingRows(DataRows(pre), cond.where, cond.value) = {2}
    /\ Len(DataRows(file)) = 2

C5_NoMatchGivesEmptyList ==
    (op = "get_by" /\ pre.exists /\ AllParse(DataRows(pre))
                   /\ MatchingRows(DataRows(pre), cond.where, cond.value) = {}) =>
        ret = RetList(<<>>)

C7_DeleteMissingFile ==
    (op = "delete" /\ ~pre.exists) =>
        /\ ret = RetBool(FALSE)
        /\ ~file.exists
        /\ ~temp.exists
        /\ temp = preTemp

\* C7 witness: delete by entry on a missing file
C7_Witness ==
    /\ op = "delete"
    /\ ~pre.exists
    /\ cond.kind = "entry"
    /\ ret = RetBool(FALSE)

\* C8: delete(e) with an Entry removes exactly the rows whose id text is
\* e.id (no row when e.id is None), whatever their other fields hold.
C8_DeleteEntryByIdOnly ==
    (op = "delete" /\ cond.kind = "entry" /\ ret = RetBool(TRUE)) =>
        LET SameId(r) == cond.entry.id.t = "str" /\ r.id = cond.entry.id.v
            Kept(r) == ~SameId(r)
        IN DataRows(file) = SelectSeq(DataRows(pre), Kept)

\* C8 witness: delete(E1) kept the row that is E1 but for the id and removed
\* the row that shares E1's id but differs in other fields
C8_Witness ==
    /\ op = "delete" /\ cond = EntryCond(E1) /\ ret = RetBool(TRUE)
    /\ \E i \in 1..Len(DataRows(pre)) : DataRows(pre)[i] = RowOf(E3)
    /\ \E i \in 1..Len(DataRows(file)) : DataRows(file)[i] = RowOf(E2)
    /\ \A i \in 1..Len(DataRows(file)) : DataRows(file)[i].id # "i1"

\* C9 (as claimed): on a readable store and with no I/O error, a condition
\* on an undeclared field matches nothing and is never an error: get_by
\* selects nothing, update and delete leave every stored row as it was and
\* do not raise.
C9_UnknownFieldNeverAnError ==
    (op \in {"get_by", "update", "delete"} /\ cond.kind \in {"query", "update"}
        /\ cond.where \notin FieldSet
        /\ pre.exists /\ AllParse(DataRows(pre))
        /\ ret # Raise("OSError")) =>
        /\ ret.kind # "raise"
        /\ op = "get_by" => ret.list = <<>>
        /\ op = "update" =>
              \A i \in 1..Len(DataRows(pre)) :
                  /\ i <= Len(DataRows(file))
                  /\ EntryOf(DataRows(file)[i]) = EntryOf(DataRows(pre)[i])
        /\ op = "delete" => DataRows(file) = DataRows(pre)

\* C10 (as claimed): write, update and delete always end by returning a
\* boolean and never raise (stated here for the calls that met no I/O
\* error: a missing file or an unparseable row is enough).
C10_MutatorsNeverRaise ==
    (op \in {"write", "update", "delete"} /\ ret # Raise("OSError")) =>
        ret.kind = "bool"

\* does delete's condition c select the text row r
Selected(r, c) ==
    CASE c.kind = "query" -> HasAttr(c.where) /\ PyEq(EntryOf(r)[c.where], c.value)
      [] c.kind = "entry" -> PyEq(EntryOf(r).id, c.entry.id)
      [] OTHER -> FALSE

\* the complete file a delete of c leaves when run on f
PostDelete(f, c) ==
    LET Kept(r) == ~Selected(r, c)
    IN [exists |-> TRUE, lines |-> <<HeaderLine>> \o SelectSeq(DataRows(f), Kept)]

\* C11: in every state inside a delete, and after a crash in any of them, the
\* backing file is either exactly what it was before the call or exactly the
\* complete result of the delete, and it is never missing; the rename comes
\* only once the temporary file holds the complete result.
C11_DeleteIsCrashSafe ==
    /\ pc \in {"read_open", "header", "loop", "closed"} => file = pre
    /\ pc = "closed" => temp = PostDelete(pre, cond)
    /\ pc = "replaced" => file = PostDelete(pre, cond) /\ ~temp.exists
    /\ op = "crash" => file \in {pre, PostDelete(pre, cond)} /\ file.exists
    /\ (op = "delete" /\ pc = "idle" /\ ret = RetBool(TRUE)) =>
          file = PostDelete(pre, cond)

\* C11 witness: a crash right after the rename, the file holding the result
C11_Witness ==
    /\ op = "crash"
    /\ file # pre
    /\ Len(DataRows(pre)) = 3
    /\ Len(DataRows(file)) = 2
    /\ ~temp.exists

\* C17: outside the with block (before delete is entered, at the rename,
\* after it, and after any exit by exception) both handles are closed, so
\* the rename never happens with a handle open.
C17_HandlesClosedAtReplace ==
    pc \in {"idle", "closed", "replaced"} => ~readOpen /\ ~writeOpen

\* C17 witness: delete left by an exception while streaming, a row already
\* copied to the temporary file
C17_Witness ==
    /\ op = "delete" /\ pc = "idle"
    /\ ret = Raise("ValidationError")
    /\ Len(temp.lines) >= 2
    /\ ~readOpen /\ ~writeOpen

\* the step-by-step delete ends where the one-step delete ends
StepsAgree ==
    (op = "delete" /\ pc = "idle" /\ pre.exists /\ ret # Raise("OSError")) =>
        LET loop == DeleteLoop(DataRows(pre), cond, <<HeaderLine>>)
        IN IF loop.exc # ""
           THEN ret = Raise(loop.exc) /\ file = pre /\ temp.lines = loop.lines
           ELSE ret = RetBool(TRUE) /\ file.lines = loop.lines /\ ~temp.exists

\* C12 (as claimed): one entry written to a fresh store comes back from
\* read_all as one entry equal to it in every field.
C12_WriteThenReadRoundTrips ==
    (op = "read_all" /\ onlyWrites /\ nWritten = 1) =>
        \E e \in Entries :
            /\ DataRows(pre) = <<RowOf(e)>>
            /\ ret.kind = "list"
            /\ Len(ret.list) = 1
            /\ \A f \in FieldSet : PyEq(ret.list[1][f], e[f])

\* the ids in a sequence of text rows are pairwise different (absent ids aside)
UniqueIds(rs) ==
    \A i, j \in 1..Len(rs) : (i # j /\ rs[i].id # "") => rs[i].id # rs[j].id

\* C13 (as claimed): no two data rows carry the same id.  Stated for the
\* calls that were not themselves handed an id twice: if the ids were unique
\* before the call, and a write brought only new ids, they are unique after.
C13_IdsStayUnique ==
    (/\ UniqueIds(DataRows(pre))
     /\ op = "write" => UniqueIds(DataRows(pre) \o MapSeq(RowOf, batch))) =>
        UniqueIds(DataRows(file))

\* C14 (as claimed): on a readable store, update returns False and leaves the
\* file as it was when no row matches; it returns True only when a row
\* matched.
C14_UpdateFalseWhenNoMatch ==
    (op = "update" /\ pre.exists /\ AllParse(DataRows(pre))) =>
        LET hits == MatchingRows(DataRows(pre), cond.where, cond.value)
        IN /\ hits = {} => (ret = RetBool(FALSE) /\ file = pre)
           /\ ret = RetBool(TRUE) => hits # {}

C16_NoneOnlyWhenReadFailed ==
    op = "get_by" =>
        /\ ~pre.exists => ret = RetNone
        /\ ret = RetNone => ReadAllResult(pre).kind = "raise"

\* C18: a delete left by an exception raised while streaming (a row that
\* does not parse, a condition that cannot be tested) never replaced the
\* backing file: it is exactly what it was, whatever the temporary file got.
C18_AbortedDeleteKeepsFile ==
    (op = "delete" /\ ret \in {Raise("ValidationError"), Raise("AttributeError")}) =>
        /\ file = pre
        /\ temp.exists

\* C18 witness: the second row did not parse, the first was already copied
C18_Witness ==
    /\ op = "delete"
    /\ ret = Raise("ValidationError")
    /\ Len(DataRows(pre)) >= 2
    /\ Len(temp.lines) >= 2
    /\ file = pre

\* C19: exists, read_all and get_by leave the backing file and the temporary
\* file exactly as they were, whether they return or fail.
C19_ReadsChangeNothing ==
    op \in {"exists", "read_all", "get_by"} =>
        /\ file = pre
        /\ temp = preTemp

\* C19 witness: read_all failed on a missing file and did not create it
C19_Witness ==
    /\ op = "read_all"
    /\ ret = Raise("FileNotFoundError")
    /\ ~file.exists
    /\ ~temp.exists

====
